---------------------------- MODULE Spec2Model ----------------------------
(***************************************************************************)
(* A model of the credit-risk pipeline: the driver (run_pipeline.py), the  *)
(* stages (load_fundamentals.py, load_fred.py, build_features.py,          *)
(* train_models.py, evaluate.py), the artifact files they read and write,  *)
(* the table transformations of build_features.py, the metrics of          *)
(* evaluate.py and the dashboard pages.                                    *)
(*                                                                         *)
(* The specifications share the variables:                                 *)
(*   Spec         the stages as processes over the artifact files          *)
(*   SpecRatios   calculate_credit_ratios applied to a fundamentals table  *)
(*   SpecFeat     build_features applied to a pair of raw tables           *)
(*   SpecFeatAny  build_features applied to tables with repeated dates     *)
(*   SpecCwd      the stages started from any working directory            *)
(*   SpecEval     run_evaluation's loop body applied to a test split       *)
(*   SpecDash     the dashboard pages over the persisted artifacts         *)
(***************************************************************************)
EXTENDS Integers, Sequences, FiniteSets, TLC

VARIABLES
    fs,         \* the artifact files: name -> [present, ok, run, keys]
    clock,      \* number of stage processes started so far (a run's identity)
    drv,        \* the driver process: [status, pc, code]
    drvLog,     \* the stages the running driver started: <<[script, rc, missing]>>
    last,       \* the stage process that ran last:
                \* [script, rc, via, missing, bad, failed, seen, rerun]
    inp,        \* SpecRatios / SpecFeat: the input tables drawn by Init
    out         \* SpecRatios / SpecFeat: the result of the function applied

vars == <<fs, clock, drv, drvLog, last, inp, out>>

(***************************************************************************)
(* Bounds.                                                                 *)
(***************************************************************************)
\* stage processes started in one behaviour
MaxRuns == 4

(***************************************************************************)
(* The artifact files.                                                     *)
(***************************************************************************)
RAW_FUNDAMENTALS == "data/raw/company_fundamentals.csv"
RAW_FRED == "data/raw/fred_credit_data.csv"
OUTPUT_FILE == "data/processed/features_and_target.csv"
LOG_REG_PKL == "models/log_reg_model.pkl"
LOG_REG_COEF == "models/log_reg_coefficients.json"
XGBOOST_PKL == "models/xgboost_model.pkl"
DATA_PATH == "models/test_data_for_evaluation.csv"
SUMMARY_PATH == "models/model_performance_summary.json"
SHAP_PATH == "models/xgboost_shap_values.csv"

\* f"{name.lower()}_roc_data.csv"
RocPath(name) ==
    IF name = "Logistic_Regression" THEN "models/logistic_regression_roc_data.csv"
    ELSE "models/xgboost_roc_data.csv"

\* evaluate.py's model_files, in the dict's insertion order
ModelNames == <<"Logistic_Regression", "XGBoost">>

ModelFile(name) == IF name = "Logistic_Regression" THEN LOG_REG_PKL ELSE XGBOOST_PKL

ModelPaths == {LOG_REG_PKL, XGBOOST_PKL}

Files == {RAW_FUNDAMENTALS, RAW_FRED, OUTPUT_FILE, LOG_REG_PKL, LOG_REG_COEF,
          XGBOOST_PKL, DATA_PATH, SUMMARY_PATH, SHAP_PATH,
          RocPath("Logistic_Regression"), RocPath("XGBoost")}

\* a file that does not exist
Absent == [present |-> FALSE, ok |-> FALSE, run |-> 0, keys |-> {}]

\* a file written whole by stage process `id`; keys: the symbols of a raw
\* fundamentals table, the model names of a performance summary
Written(id, keys) == [present |-> TRUE, ok |-> TRUE, run |-> id, keys |-> keys]

\* the symbol universe, cut to two symbols
SYMBOLS == {"MSFT", "AAPL"}

\* the labels of load_credit_data's series_list, cut to two series
SERIES == {"HIGH_YIELD_OAS", "IG_OAS"}

(***************************************************************************)
(* The stages.  Each is a process: given the files, its identity and what  *)
(* the outside world answers, it yields the files it leaves and its exit   *)
(* status (0 on a normal return, 1 on an uncaught exception).              *)
(***************************************************************************)
Exit(files, rc, missing) == [fs |-> files, rc |-> rc, missing |-> missing]

\* load_fundamentals.py as a script; fetched: the symbols whose fetch succeeded
LoadFundamentalsMain(files, id, fetched) ==
    IF fetched = {}
    THEN Exit(files, 1, FALSE)                      \* raise ValueError("FATAL ...")
    ELSE Exit([files EXCEPT ![RAW_FUNDAMENTALS] = Written(id, fetched)], 0, FALSE)

\* load_fred.py as a script; key: FRED_API_KEY is set; fetched: the series
\* for which load_fred_series returned a frame that is not empty
LoadFredMain(files, id, key, fetched) ==
    IF ~key THEN Exit(files, 1, FALSE)              \* raise ValueError at import
    ELSE IF fetched = {}
    THEN Exit(files, 0, FALSE)                      \* print(" FAILED: ...")
    ELSE Exit([files EXCEPT ![RAW_FRED] = Written(id, fetched)], 0, FALSE)

\* build_features.py as a script; dataOk: the transformation raised nothing
BuildFeaturesMain(files, id, dataOk) ==
    IF ~files[RAW_FRED].present \/ ~files[RAW_FUNDAMENTALS].present
    THEN Exit(files, 0, TRUE)                       \* except FileNotFoundError: return None
    ELSE IF ~dataOk THEN Exit(files, 1, FALSE)      \* uncaught exception before to_csv
    ELSE Exit([files EXCEPT ![OUTPUT_FILE] = Written(id, {})], 0, FALSE)

\* the points at which train_models.main can raise
TrainFailures == {"none", "split", "logreg_fit", "xgboost"}

\* train_models.py as a script; failAt: where (if anywhere) fitting raises
TrainModelsMain(files, id, failAt) ==
    IF ~files[OUTPUT_FILE].present THEN Exit(files, 1, TRUE)  \* raise FileNotFoundError
    ELSE IF failAt \in {"split", "logreg_fit"} THEN Exit(files, 1, FALSE)
    ELSE LET f1 == [files EXCEPT ![LOG_REG_PKL] = Written(id, {}),
                                 ![LOG_REG_COEF] = Written(id, {})]
         IN  IF failAt = "xgboost" THEN Exit(f1, 1, FALSE)
             ELSE Exit([f1 EXCEPT ![XGBOOST_PKL] = Written(id, {}),
                                  ![DATA_PATH] = Written(id, {})], 0, FALSE)

\* one pass of run_evaluation's loop over model_files, from position i:
\* st = [fs, keys, raised]
RECURSIVE EvalLoop(_, _, _)
EvalLoop(st, id, i) ==
    IF i > Len(ModelNames) \/ st.raised THEN st
    ELSE LET name == ModelNames[i]
             file == st.fs[ModelFile(name)]
         IN  IF ~file.present THEN EvalLoop(st, id, i + 1)         \* continue
             ELSE IF ~file.ok
             THEN [st EXCEPT !.raised = TRUE]                      \* joblib.load raises
             ELSE LET f1 == [st.fs EXCEPT ![RocPath(name)] = Written(id, {name})]
                      f2 == IF name = "XGBoost"
                            THEN [f1 EXCEPT ![SHAP_PATH] = Written(id, {name})]
                            ELSE f1
                  IN  EvalLoop([fs |-> f2, keys |-> st.keys \cup {name},
                                raised |-> FALSE], id, i + 1)

\* evaluate.py as a script that also saves the test split it read
EvaluateMainSaving(files, id) ==
    IF ~files[DATA_PATH].present THEN Exit(files, 0, TRUE)
    ELSE LET st == EvalLoop([fs |-> files, keys |-> {}, raised |-> FALSE], id, 1)
         IN  IF st.raised THEN Exit(st.fs, 1, FALSE)
             ELSE Exit([st.fs EXCEPT ![SUMMARY_PATH] = Written(id, st.keys),
                                     ![DATA_PATH] = Written(id, {})], 0, FALSE)

\* evaluate.py as a script
EvaluateMain(files, id) ==
    IF ~files[DATA_PATH].present THEN Exit(files, 0, TRUE)     \* print("Error: ..."); return
    ELSE LET st == EvalLoop([fs |-> files, keys |-> {}, raised |-> FALSE], id, 1)
         IN  IF st.raised THEN Exit(st.fs, 1, FALSE)
             ELSE Exit([st.fs EXCEPT ![SUMMARY_PATH] = Written(id, st.keys)], 0, FALSE)

\* the scripts run_pipeline.py starts, in its order
Scripts == <<"src/ingestion/load_fundamentals.py", "src/preprocessing/build_features.py",
             "src/modeling/train_models.py", "src/evaluation/evaluate.py">>

\* the outcomes of fetching a batch: every entity fails, only `one` is
\* fetched (which stands for any part of the batch), every entity is fetched
FetchOutcomes(all, one) == {{}, {one}, all}

\* what the outside world can answer a stage
Answers == [fetched : FetchOutcomes(SYMBOLS, "MSFT"), dataOk : BOOLEAN,
            failAt : TrainFailures]

\* the process started for Scripts[i]
RunStage(i, files, id, env) ==
    CASE i = 1 -> LoadFundamentalsMain(files, id, env.fetched)
      [] i = 2 -> BuildFeaturesMain(files, id, env.dataOk)
      [] i = 3 -> TrainModelsMain(files, id, env.failAt)
      [] OTHER -> EvaluateMain(files, id)

\* the answers stage i reads: the others are fixed, so that a stage that asks
\* nothing of the world has one outcome
AnswersOf(i) ==
    {e \in Answers :
        /\ (i # 1 => e.fetched = SYMBOLS)
        /\ (i # 2 => e.dataOk)
        /\ (i # 3 => e.failAt = "none")}

(***************************************************************************)
(* The driver, run_pipeline.py.                                            *)
(***************************************************************************)
\* run_script after the subprocess returned rc, ignoring the return code
AfterStageNoAbort(d, rc) ==
    IF d.pc = Len(Scripts)
    THEN [status |-> "complete", pc |-> d.pc, code |-> 0]
    ELSE [d EXCEPT !.pc = d.pc + 1]

\* run_script after the subprocess returned rc
AfterStage(d, rc) ==
    IF rc # 0
    THEN [status |-> "stopped", pc |-> d.pc, code |-> 1]       \* sys.exit(1)
    ELSE IF d.pc = Len(Scripts)
    THEN [status |-> "complete", pc |-> d.pc, code |-> 0]
    ELSE [d EXCEPT !.pc = d.pc + 1]

\* the models whose file is absent or cannot be loaded
BadModels(files) ==
    {ModelNames[i] : i \in {j \in 1..Len(ModelNames) :
        ~files[ModelFile(ModelNames[j])].present \/ ~files[ModelFile(ModelNames[j])].ok}}

\* the files evaluate.py reads, as an evaluator finds them when it starts
EvaluatorInputs(files) == [f \in ModelPaths \cup {DATA_PATH} |-> files[f]]

\* what is remembered of a stage process (its identity is the clock's value):
\* its script and exit status, who started it, whether an input file it needs
\* was absent when it started, the models that could not be loaded then, the
\* entities (symbols, series) whose fetch failed, and for an evaluator the
\* input files it found and whether it is a rerun: the process before it
\* (prev) was an evaluator too and found the input files the same
Process(i, r, via, files, env) ==
    [script |-> Scripts[i], rc |-> r.rc, via |-> via,
     missing |-> r.missing, bad |-> BadModels(files),
     failed |-> IF i = 1 THEN SYMBOLS \ env.fetched ELSE {},
     seen |-> IF i = Len(Scripts) THEN EvaluatorInputs(files) ELSE <<>>,
     rerun |-> /\ i = Len(Scripts)
               /\ last.script = Scripts[Len(Scripts)]
               /\ last.seen = EvaluatorInputs(files)]

NoProcess == [script |-> "", rc |-> 0, via |-> "", missing |-> FALSE, bad |-> {},
              failed |-> {}, seen |-> <<>>, rerun |-> FALSE]

\* the macro loader, which run_pipeline.py does not start
LOAD_FRED == "src/ingestion/load_fred.py"

Init ==
    /\ fs \in {[f \in Files |-> IF f \in given THEN Written(0, {}) ELSE Absent] :
                 given \in SUBSET {RAW_FRED, OUTPUT_FILE}}
    /\ clock = 0
    /\ drv = [status |-> "idle", pc |-> 1, code |-> 0]
    /\ drvLog = <<>>
    /\ last = NoProcess
    /\ inp = <<>>
    /\ out = <<>>

\* python run_pipeline.py
DriverStart ==
    /\ drv.status # "running"
    /\ clock < MaxRuns
    /\ drv' = [status |-> "running", pc |-> 1, code |-> 0]
    /\ drvLog' = <<>>
    /\ UNCHANGED <<fs, clock, last, inp, out>>

\* run_script(Scripts[drv.pc]): the subprocess runs to its end
DriverRunStage ==
    /\ drv.status = "running"
    /\ clock < MaxRuns
    /\ \E env \in AnswersOf(drv.pc) :
         LET r == RunStage(drv.pc, fs, clock + 1, env)
         IN  /\ fs' = r.fs
             /\ clock' = clock + 1
             /\ drvLog' = Append(drvLog, [script |-> Scripts[drv.pc], rc |-> r.rc,
                                          missing |-> r.missing])
             /\ drv' = AfterStage(drv, r.rc)
             /\ last' = Process(drv.pc, r, "driver", fs, env)
    /\ UNCHANGED <<inp, out>>

\* python <script> by hand, no driver running
Standalone ==
    /\ drv.status # "running"
    /\ clock < MaxRuns
    /\ \E i \in 1..Len(Scripts) : \E env \in AnswersOf(i) :
         LET r == RunStage(i, fs, clock + 1, env)
         IN  /\ fs' = r.fs
             /\ clock' = clock + 1
             /\ last' = Process(i, r, "hand", fs, env)
    /\ UNCHANGED <<drv, drvLog, inp, out>>

\* python src/ingestion/load_fred.py by hand, no driver running
StandaloneFred ==
    /\ drv.status # "running"
    /\ clock < MaxRuns
    /\ \E key \in BOOLEAN : \E fetched \in FetchOutcomes(SERIES, "HIGH_YIELD_OAS") :
         LET r == LoadFredMain(fs, clock + 1, key, fetched)
         IN  /\ key \/ fetched = {}
             /\ fs' = r.fs
             /\ clock' = clock + 1
             /\ last' = [script |-> LOAD_FRED, rc |-> r.rc, via |-> "hand",
                         missing |-> FALSE, bad |-> BadModels(fs),
                         failed |-> IF key THEN SERIES \ fetched ELSE {},
                         seen |-> <<>>, rerun |-> FALSE]
    /\ UNCHANGED <<drv, drvLog, inp, out>>

\* between two processes a model file or the test split is deleted, or a
\* model file is damaged so that joblib.load raises
Disturb ==
    /\ drv.status # "running"
    /\ \E f \in ModelPaths \cup {DATA_PATH} :
         /\ fs[f].present
         /\ \/ fs' = [fs EXCEPT ![f] = Absent]
            \/ /\ f \in ModelPaths
               /\ fs[f].ok
               /\ fs' = [fs EXCEPT ![f].ok = FALSE]
    /\ UNCHANGED <<clock, drv, drvLog, last, inp, out>>

Next == DriverStart \/ DriverRunStage \/ Standalone \/ StandaloneFred \/ Disturb

Spec == Init /\ [][Next]_vars

(***************************************************************************)
(* Claims about the driver and the stages, checked under Spec.             *)
(***************************************************************************)
BUILD_FEATURES == Scripts[2]
TRAIN_MODELS == Scripts[3]
EVALUATE == Scripts[4]

\* C1: the driver starts its stages in the fixed order fundamentals ingestion,
\* feature building, training, evaluation; only the stage started last can have
\* exited non-zero (a stage is started only after the previous one exited 0),
\* and once a stage exited non-zero the driver has stopped with a non-zero exit
\* status of its own; it completes only after all four stages exited 0.
C1_DriverOrder ==
    /\ Len(drvLog) <= Len(Scripts)
    /\ \A i \in 1..Len(drvLog) : drvLog[i].script = Scripts[i]
    /\ \A i \in 1..(Len(drvLog) - 1) : drvLog[i].rc = 0
    /\ (\E i \in 1..Len(drvLog) : drvLog[i].rc # 0)
          => drv.status = "stopped" /\ drv.code # 0
    /\ drv.status = "running" => drv.pc = Len(drvLog) + 1
    /\ drv.status = "complete"
          => Len(drvLog) = Len(Scripts) /\ drv.code = 0
             /\ \A i \in 1..Len(drvLog) : drvLog[i].rc = 0

\* a driver run stopped by the trainer, its third stage
C1_Witness ==
    /\ drv.status = "stopped"
    /\ Len(drvLog) = 3
    /\ drvLog[3].rc # 0

\* C2: a feature builder that starts with the raw fundamentals table or the raw
\* macro table absent exits non-zero and writes no feature+target table, and in
\* a driver run no stage is started after it.
C2_MissingInputIsFatal ==
    /\ (last.script = BUILD_FEATURES /\ last.missing)
          => last.rc # 0 /\ fs[OUTPUT_FILE].run # clock
    /\ \A i \in 1..Len(drvLog) :
          (drvLog[i].script = BUILD_FEATURES /\ drvLog[i].missing)
            => drvLog[i].rc # 0 /\ Len(drvLog) = i

\* C9: an evaluator that starts with the test split present and exactly one of
\* the two model files absent or unloadable exits 0 and leaves a performance
\* summary of its own whose keys are exactly the other model.
C9_OneBadModelTolerated ==
    (last.script = EVALUATE /\ ~last.missing /\ Cardinality(last.bad) = 1)
      => /\ last.rc = 0
         /\ fs[SUMMARY_PATH].present
         /\ fs[SUMMARY_PATH].run = clock
         /\ fs[SUMMARY_PATH].keys = {ModelNames[i] : i \in 1..Len(ModelNames)} \ last.bad

\* C10: an evaluator that starts with the test split absent exits non-zero and
\* writes no ROC table, no SHAP table and no performance summary; started by
\* the driver, the driver stops.
C10_MissingTestSplitIsFatal ==
    (last.script = EVALUATE /\ last.missing)
      => /\ last.rc # 0
         /\ \A f \in {SUMMARY_PATH, SHAP_PATH, RocPath("Logistic_Regression"),
                       RocPath("XGBoost")} : fs[f].run # clock
         /\ (last.via = "driver" => drv.status = "stopped")

LOAD_FUNDAMENTALS == Scripts[1]

\* Some but not every entity of a loader's batch failed to fetch.
SomeFailed(all) == last.failed # {} /\ last.failed # all

\* C11: a loader (fundamentals, macro) in whose batch some but not every
\* entity failed to fetch exits 0 and leaves a raw table of its own holding
\* the entities that were fetched; a loader in whose batch every entity failed
\* exits non-zero and writes no raw table.
C11_LoaderFailures ==
    /\ last.script = LOAD_FUNDAMENTALS =>
          /\ SomeFailed(SYMBOLS) =>
                /\ last.rc = 0
                /\ fs[RAW_FUNDAMENTALS] = Written(clock, SYMBOLS \ last.failed)
          /\ last.failed = SYMBOLS =>
                last.rc # 0 /\ fs[RAW_FUNDAMENTALS].run # clock
    /\ last.script = LOAD_FRED =>
          /\ SomeFailed(SERIES) =>
                /\ last.rc = 0
                /\ fs[RAW_FRED] = Written(clock, SERIES \ last.failed)
          /\ last.failed = SERIES =>
                last.rc # 0 /\ fs[RAW_FRED].run # clock

\* C20: an evaluator process leaves the persisted test split and the persisted
\* model files as they were (the test split stays the one the trainer wrote);
\* and an evaluator rerun, one that follows an evaluator process and finds the
\* test split and the model files as that process found them, exits as that
\* process did and, when that is with status 0 and the test split present,
\* overwrites the performance summary with entries for the same models.
C20_EvaluatorRerun ==
    [][(clock' = clock + 1 /\ last'.script = EVALUATE)
         => /\ \A f \in ModelPaths \cup {DATA_PATH} : fs'[f] = fs[f]
            /\ last'.rerun
                 => /\ last'.rc = last.rc
                    /\ last'.missing = last.missing
                    /\ (last.rc = 0 /\ ~last.missing)
                         => /\ fs[SUMMARY_PATH].run = clock
                            /\ fs'[SUMMARY_PATH] = Written(clock', fs[SUMMARY_PATH].keys)]_vars

\* an evaluator rerun that wrote a summary of both models from a test split
\* that an earlier process wrote
C20_Witness ==
    /\ last.script = EVALUATE
    /\ last.rerun
    /\ last.rc = 0
    /\ fs[SUMMARY_PATH] = Written(clock, {"Logistic_Regression", "XGBoost"})
    /\ fs[DATA_PATH].present
    /\ fs[DATA_PATH].run < clock - 1

\* the files a trainer run persists
TrainerOutputs == {LOG_REG_PKL, LOG_REG_COEF, XGBOOST_PKL, DATA_PATH}

\* C22: after any sequence of trainer runs, runs failing partway included,
\* the persisted linear model, coefficient map, tree model and test split that
\* are present were all written by the same trainer run.
C22_SameTrainingRun ==
    \A f, g \in TrainerOutputs :
        (fs[f].present /\ fs[g].present) => fs[f].run = fs[g].run

\* the file f, which evaluate.py writes for model `name`, is present only
\* beside a summary that has the model's key and was written by the same run
DescribedBySummary(f, name) ==
    fs[f].present
      => /\ fs[SUMMARY_PATH].present
         /\ name \in fs[SUMMARY_PATH].keys
         /\ fs[SUMMARY_PATH].run = fs[f].run

\* C23: after any sequence of evaluator runs, model files appearing,
\* disappearing or failing to load in between, a model's ROC table or the SHAP
\* table is present only if the current performance summary has that model's
\* key and was written by the evaluator run that wrote the table.
C23_TablesMatchSummary ==
    /\ \A i \in 1..Len(ModelNames) : DescribedBySummary(RocPath(ModelNames[i]), ModelNames[i])
    /\ DescribedBySummary(SHAP_PATH, "XGBoost")

\* the files the stages of a driver run read
StageInputs == {RAW_FUNDAMENTALS, RAW_FRED, OUTPUT_FILE, DATA_PATH, LOG_REG_PKL, XGBOOST_PKL}

\* the driver has just completed a full run: its evaluator was the last
\* process, and the run's processes are the last Len(drvLog) ones
FullRunDone ==
    /\ drv.status = "complete"
    /\ last.via = "driver"
    /\ last.script = EVALUATE

\* C24: when a full driver run completes, every input file its stages read
\* was written by a process of that run, and in particular the raw macro table
\* exists and was written during the run.
C24_InputsFromSameRun ==
    FullRunDone
      => /\ \A f \in StageInputs : fs[f].present => fs[f].run > clock - Len(drvLog)
         /\ fs[RAW_FRED].present

(***************************************************************************)
(* Table cells.  A numeric cell is a float: a rational n/d in lowest terms *)
(* (d > 0), an infinity (n its sign) or NaN; a raw cell can also hold text *)
(* that is no number.                                                      *)
(***************************************************************************)
NaN == [k |-> "nan", n |-> 0, d |-> 1]
Txt == [k |-> "txt", n |-> 0, d |-> 1]
Inf(sign) == [k |-> "inf", n |-> sign, d |-> 1]

Abs(x) == IF x < 0 THEN -x ELSE x
Sign(x) == IF x < 0 THEN -1 ELSE IF x > 0 THEN 1 ELSE 0

RECURSIVE GCD(_, _)
GCD(a, b) == IF b = 0 THEN a ELSE GCD(b, a % b)

\* the float n/d, d # 0
Num(n, d) ==
    LET g == GCD(Abs(n), Abs(d))
    IN  [k |-> "num", n |-> Sign(d) * Sign(n) * (Abs(n) \div g), d |-> Abs(d) \div g]

IsNaN(c) == c.k = "nan"

\* pd.to_numeric(cell, errors="coerce")
ToNumeric(c) == IF c.k = "txt" THEN NaN ELSE c

\* a / b of two float Series, element by element (IEEE: x/0 is an infinity
\* for x # 0 and NaN for x = 0; NaN propagates)
Div(a, b) ==
    IF IsNaN(a) \/ IsNaN(b) THEN NaN
    ELSE IF a.k = "inf" /\ b.k = "inf" THEN NaN
    ELSE IF a.k = "inf" THEN Inf(a.n * (IF b.n < 0 THEN -1 ELSE 1))
    ELSE IF b.k = "inf" THEN Num(0, 1)
    ELSE IF b.n = 0 THEN (IF a.n = 0 THEN NaN ELSE Inf(Sign(a.n)))
    ELSE Num(a.n * b.d, a.d * b.n)

(***************************************************************************)
(* calculate_credit_ratios.  A frame is [cols, rows]: cols the numeric     *)
(* columns it has, rows a sequence of [symbol, date, v], v : cols -> cell. *)
(***************************************************************************)
RAW_COLS == {"totalDebt_bal", "totalAssets_bal", "netIncome_inc", "totalRevenue_inc",
             "cashAndShortTermInvestments_bal"}

RATIO_COLS == {"LEVERAGE", "PROFIT_MARGIN", "LIQUIDITY_RATIO"}

\* df[num] / df[den] if guard in df.columns else np.nan, for one row;
\* evaluated only when it raises no KeyError
RatioCell(df, row, guard, num, den) ==
    IF guard \in df.cols THEN Div(ToNumeric(row.v[num]), ToNumeric(row.v[den])) ELSE NaN

\* df[...] of a column the frame lacks: KeyError
LeverageKeyError(cols) == "totalDebt_bal" \in cols /\ "totalAssets_bal" \notin cols
MarginKeyError(cols) == "netIncome_inc" \in cols /\ "totalRevenue_inc" \notin cols
LiquidityKeyError(cols) ==
    /\ "totalAssets_bal" \in cols
    /\ "cashAndShortTermInvestments_bal" \notin cols

calculate_credit_ratios(df) ==
    IF LeverageKeyError(df.cols) \/ MarginKeyError(df.cols) \/ LiquidityKeyError(df.cols)
    THEN [raised |-> TRUE, cols |-> {}, rows |-> <<>>]
    ELSE [raised |-> FALSE,
          cols |-> (df.cols \ RAW_COLS) \cup RATIO_COLS,
          rows |-> [i \in 1..Len(df.rows) |->
             LET row == df.rows[i]
             IN  [symbol |-> row.symbol, date |-> row.date,
                  v |-> [c \in (df.cols \ RAW_COLS) \cup RATIO_COLS |->
                     CASE c = "LEVERAGE" ->
                            RatioCell(df, row, "totalDebt_bal",
                                      "totalDebt_bal", "totalAssets_bal")
                       [] c = "PROFIT_MARGIN" ->
                            RatioCell(df, row, "netIncome_inc",
                                      "netIncome_inc", "totalRevenue_inc")
                       [] c = "LIQUIDITY_RATIO" ->
                            RatioCell(df, row, "totalAssets_bal",
                                      "cashAndShortTermInvestments_bal", "totalAssets_bal")
                       [] OTHER -> ToNumeric(row.v[c])]]]]

(***************************************************************************)
(* SpecRatios: calculate_credit_ratios applied to a one-row fundamentals   *)
(* table with any subset of the raw columns and any cells from RawCells.   *)
(***************************************************************************)
\* the largest magnitude of a raw line item
MaxRaw == 1

RawCells == {NaN, Txt} \cup {Num(n, 1) : n \in (0 - 1)..MaxRaw}

\* the pipeline variables, at rest
AtRest ==
    /\ fs = [f \in Files |-> Absent]
    /\ clock = 0
    /\ drv = [status |-> "idle", pc |-> 1, code |-> 0]
    /\ drvLog = <<>>
    /\ last = NoProcess

NotComputed == [raised |-> FALSE, cols |-> {}, rows |-> <<>>, done |-> FALSE]

InitRatios ==
    /\ AtRest
    /\ inp \in UNION {{[cols |-> cs,
                        rows |-> <<[symbol |-> "AAPL", date |-> 0, v |-> v]>>] :
                          v \in [cs -> RawCells]} : cs \in SUBSET RAW_COLS}
    /\ out = NotComputed

ApplyRatios ==
    /\ ~out.done
    /\ LET r == calculate_credit_ratios(inp)
       IN  out' = [raised |-> r.raised, cols |-> r.cols, rows |-> r.rows, done |-> TRUE]
    /\ UNCHANGED <<fs, clock, drv, drvLog, last, inp>>

NextRatios == ApplyRatios

SpecRatios == InitRatios /\ [][NextRatios]_vars

\* the raw cell of column c in the input row; a column the table lacks reads
\* as missing
RawOf(c) == IF c \in inp.cols THEN ToNumeric(inp.rows[1].v[c]) ELSE NaN

ZeroOrMissing(c) == IsNaN(RawOf(c)) \/ (RawOf(c).k = "num" /\ RawOf(c).n = 0)

\* C7: when totalAssets_bal of a row is zero or missing, LEVERAGE and
\* LIQUIDITY_RATIO of that row are missing (not infinite, no exception) whatever
\* the numerator; likewise PROFIT_MARGIN when totalRevenue_inc is zero or missing.
C7_ZeroDenominatorIsMissing ==
    (out.done /\ inp.cols = RAW_COLS)
      => /\ ~out.raised
         /\ ZeroOrMissing("totalAssets_bal")
              => /\ IsNaN(out.rows[1].v["LEVERAGE"])
                 /\ IsNaN(out.rows[1].v["LIQUIDITY_RATIO"])
         /\ ZeroOrMissing("totalRevenue_inc")
              => IsNaN(out.rows[1].v["PROFIT_MARGIN"])

\* the ratios each raw column enters
RatiosOf(c) ==
    CASE c \in {"totalDebt_bal"} -> {"LEVERAGE"}
      [] c \in {"totalAssets_bal"} -> {"LEVERAGE", "LIQUIDITY_RATIO"}
      [] c \in {"netIncome_inc", "totalRevenue_inc"} -> {"PROFIT_MARGIN"}
      [] OTHER -> {"LIQUIDITY_RATIO"}

\* C8: calculate_credit_ratios raises for no subset of the five raw columns,
\* and every ratio with an absent numerator or denominator column is missing.
C8_AbsentColumnIsMissing ==
    out.done
      => /\ ~out.raised
         /\ \A c \in RAW_COLS \ inp.cols :
              \A r \in RatiosOf(c) : IsNaN(out.rows[1].v[r])

(***************************************************************************)
(* build_features.  Dates are day numbers.  The raw macro table is a frame *)
(* whose rows are [date, v]; the frames built from it and the fundamentals *)
(* have rows [symbol, date, v].                                            *)
(***************************************************************************)
\* df["HIGH_RISK_ALERT"].shift(-90)
Horizon == 90

\* pd.to_numeric(...) > 5.0
HighRiskThreshold == 5

\* the symbols in the order groupby('symbol') yields its groups
SymbolOrder == <<"AAPL", "MSFT">>

GroupKeys(rows) ==
    SelectSeq(SymbolOrder, LAMBDA sym : \E i \in 1..Len(rows) : rows[i].symbol = sym)

Group(rows, sym) == SelectSeq(rows, LAMBDA r : r.symbol = sym)

RECURSIVE Concat(_, _)
\* pd.concat of the frames seqs[i..]
Concat(seqs, i) == IF i > Len(seqs) THEN <<>> ELSE seqs[i] \o Concat(seqs, i + 1)

MinDate(rows) == CHOOSE d \in {rows[i].date : i \in 1..Len(rows)} :
                    \A j \in 1..Len(rows) : d <= rows[j].date
MaxDate(rows) == CHOOSE d \in {rows[i].date : i \in 1..Len(rows)} :
                    \A j \in 1..Len(rows) : d >= rows[j].date

RECURSIVE FFillRange(_, _, _, _, _)
\* rows[lo..hi] with the columns cs forward-filled, carry being the filled
\* cells of row lo - 1 (the range is halved to keep the evaluation shallow)
FFillRange(rows, cs, lo, hi, carry) ==
    IF lo > hi THEN <<>>
    ELSE IF lo = hi
    THEN <<[rows[lo] EXCEPT !.v =
              [c \in cs |-> IF IsNaN(rows[lo].v[c]) THEN carry[c] ELSE rows[lo].v[c]]
              @@ rows[lo].v]>>
    ELSE LET mid == (lo + hi) \div 2
             left == FFillRange(rows, cs, lo, mid, carry)
         IN  left \o FFillRange(rows, cs, mid + 1, hi, left[Len(left)].v)

\* .ffill() of the columns cs down the rows: a missing cell takes the last
\* cell above it that is not missing, if any
FFill(rows, cs) == FFillRange(rows, cs, 1, Len(rows), [c \in cs |-> NaN])

\* the group forward-filled on its own report dates, not reindexed
DensifySparse(group, sym, lo, hi, cols) ==
    FFill([k \in 1..Len(group) |->
             [symbol |-> sym, date |-> group[k].date, v |-> group[k].v]], cols)

\* the group's own rows left in the frame beside the reindexed ones
DensifyAppend(group, sym, lo, hi, cols) ==
    LET at(d) == {i \in 1..Len(group) : group[i].date = d}
        reindexed == [k \in 1..(hi - lo + 1) |->
            [symbol |-> sym, date |-> lo + k - 1,
             v |-> IF at(lo + k - 1) = {} THEN [c \in cols |-> NaN]
                   ELSE group[CHOOSE i \in at(lo + k - 1) : TRUE].v]]
    IN  FFill(reindexed \o [k \in 1..Len(group) |->
                 [symbol |-> sym, date |-> group[k].date, v |-> group[k].v]], cols)

\* group_df.reindex(full_date_range).ffill(); group_df['symbol'] = symbol;
\* dropna(subset=['symbol']) then drops nothing
Densify(group, sym, lo, hi, cols) ==
    LET at(d) == {i \in 1..Len(group) : group[i].date = d}
        reindexed == [k \in 1..(hi - lo + 1) |->
            [symbol |-> sym, date |-> lo + k - 1,
             v |-> IF at(lo + k - 1) = {} THEN [c \in cols |-> NaN]
                   ELSE group[CHOOSE i \in at(lo + k - 1) : TRUE].v]]
    IN  FFill(reindexed, cols)

\* reindex of an index with a repeated date raises ValueError
DuplicateDates(group) ==
    \E i, j \in 1..Len(group) : i # j /\ group[i].date = group[j].date

RECURSIVE MergeRange(_, _, _, _, _)
\* pd.merge(final_df, fred_df, on="date", how="left") of the left rows lo..hi,
\* in the left rows' order: a left row with no match keeps missing macro cells,
\* one with several matches is repeated in the matches' order
MergeRange(rows, fred, mcols, lo, hi) ==
    IF lo > hi THEN <<>>
    ELSE IF lo = hi
    THEN LET hits == SelectSeq(fred, LAMBDA m : m.date = rows[lo].date)
         IN  IF hits = <<>>
             THEN <<[rows[lo] EXCEPT !.v = [c \in mcols |-> NaN] @@ rows[lo].v]>>
             ELSE [k \in 1..Len(hits) |-> [rows[lo] EXCEPT !.v = hits[k].v @@ rows[lo].v]]
    ELSE LET mid == (lo + hi) \div 2
         IN  MergeRange(rows, fred, mcols, lo, mid)
               \o MergeRange(rows, fred, mcols, mid + 1, hi)

\* np.where(pd.to_numeric(spread) > 5.0, 1, 0); with >= instead
AlertAtLeast(c) ==
    IF c.k = "inf" THEN (IF c.n > 0 THEN 1 ELSE 0)
    ELSE IF c.k = "num" /\ c.n >= HighRiskThreshold * c.d THEN 1 ELSE 0

\* np.where(pd.to_numeric(spread) > 5.0, 1, 0): a missing spread compares False
Alert(c) ==
    IF c.k = "inf" THEN (IF c.n > 0 THEN 1 ELSE 0)
    ELSE IF c.k = "num" /\ c.n > HighRiskThreshold * c.d THEN 1 ELSE 0

\* construct_synthetic_label with the alert shifted back one row too few
construct_synthetic_label_89(group, cols) ==
    IF "HIGH_YIELD_OAS" \notin cols
    THEN [i \in 1..Len(group) |->
            [group[i] EXCEPT !.v = ("TARGET_HIGH_RISK" :> NaN) @@ group[i].v]]
    ELSE [i \in 1..Len(group) |->
            [group[i] EXCEPT !.v =
               ("TARGET_HIGH_RISK" :>
                  IF i + Horizon - 1 <= Len(group)
                  THEN Num(Alert(group[i + Horizon - 1].v["HIGH_YIELD_OAS"]), 1)
                  ELSE NaN) @@ group[i].v]]

\* construct_synthetic_label of one group: the alert of the row 90 rows below,
\* missing on the last 90 rows
construct_synthetic_label(group, cols) ==
    IF "HIGH_YIELD_OAS" \notin cols
    THEN [i \in 1..Len(group) |->
            [group[i] EXCEPT !.v = ("TARGET_HIGH_RISK" :> NaN) @@ group[i].v]]
    ELSE [i \in 1..Len(group) |->
            [group[i] EXCEPT !.v =
               ("TARGET_HIGH_RISK" :>
                  IF i + Horizon <= Len(group)
                  THEN Num(Alert(group[i + Horizon].v["HIGH_YIELD_OAS"]), 1)
                  ELSE NaN) @@ group[i].v]]

\* construct_synthetic_label applied to the whole frame, not group by group
ApplyLabelUngrouped(rows, cols) == construct_synthetic_label(rows, cols)

\* merged_df.groupby('symbol').apply(construct_synthetic_label)
ApplyLabel(rows, cols) ==
    LET keys == GroupKeys(rows)
    IN  Concat([g \in 1..Len(keys) |->
                  construct_synthetic_label(Group(rows, keys[g]), cols)], 1)

\* the label left as shifted: no forward fill
TargetFFillNone(rows) == rows

\* final_df.groupby('symbol')['TARGET_HIGH_RISK'].ffill()
TargetFFill(rows) ==
    LET keys == GroupKeys(rows)
    IN  Concat([g \in 1..Len(keys) |->
                  FFill(Group(rows, keys[g]), {"TARGET_HIGH_RISK"})], 1)

\* final_df.dropna(subset=["TARGET_HIGH_RISK"])
DropUnlabelled(rows) == SelectSeq(rows, LAMBDA r : ~IsNaN(r.v["TARGET_HIGH_RISK"]))

\* a <= b for two floats that are not NaN
LessEq(a, b) ==
    IF a.k = "inf" THEN (a.n < 0 \/ (b.k = "inf" /\ b.n > 0))
    ELSE IF b.k = "inf" THEN b.n > 0
    ELSE a.n * b.d <= b.n * a.d

\* (a + b) / 2
Mean(a, b) ==
    IF a.k = "inf" /\ b.k = "inf" THEN (IF a.n = b.n THEN a ELSE NaN)
    ELSE IF a.k = "inf" THEN a
    ELSE IF b.k = "inf" THEN b
    ELSE Num(a.n * b.d + b.n * a.d, 2 * a.d * b.d)

\* final_df.median(numeric_only=True) of column c: the median of its cells
\* that are not missing, NaN when it has none
Median(rows, c) ==
    LET idx == {i \in 1..Len(rows) : ~IsNaN(rows[i].v[c])}
        m == Cardinality(idx)
        vals == {rows[i].v[c] : i \in idx}
        below(x) == Cardinality({i \in idx : LessEq(rows[i].v[c], x) /\ rows[i].v[c] # x})
        upto(x) == Cardinality({i \in idx : LessEq(rows[i].v[c], x)})
        kth(k) == CHOOSE x \in vals : below(x) < k /\ k <= upto(x)
    IN  IF m = 0 THEN NaN
        ELSE IF m % 2 = 1 THEN kth((m + 1) \div 2)
        ELSE Mean(kth(m \div 2), kth(m \div 2 + 1))

\* final_df.fillna(final_df.median(numeric_only=True)).fillna(0)
FillResidual(rows, cols) ==
    LET med == [c \in cols |-> Median(rows, c)]
        fill(c, x) == IF ~IsNaN(x) THEN x
                      ELSE IF ~IsNaN(med[c]) THEN med[c] ELSE Num(0, 1)
    IN  [i \in 1..Len(rows) |->
           [rows[i] EXCEPT !.v = [c \in cols |-> fill(c, rows[i].v[c])]]]

Raised == [raised |-> TRUE, dense |-> <<>>, labelled |-> <<>>, final |-> <<>>,
           done |-> TRUE]

\* build_features on the raw tables fund and fred, both present: what it
\* raises or writes, with the densified panel (final_df of line 87) and the
\* frame the labels were computed on (line 95) kept for inspection
build_features(fund, fred) ==
    LET available == [cols |-> fund.cols \cap RAW_COLS,
                      rows |-> [i \in 1..Len(fund.rows) |->
                         [fund.rows[i] EXCEPT !.v =
                            [c \in fund.cols \cap RAW_COLS |-> fund.rows[i].v[c]]]]]
        ratios == calculate_credit_ratios(available)
    IN  IF ratios.raised THEN Raised
        ELSE
        LET lo == MinDate(ratios.rows)
            hi == MaxDate(fred.rows)
            keys == GroupKeys(ratios.rows)
        IN  IF \E g \in 1..Len(keys) : DuplicateDates(Group(ratios.rows, keys[g]))
            THEN Raised
            ELSE
            LET dense == Concat([g \in 1..Len(keys) |->
                           Densify(Group(ratios.rows, keys[g]), keys[g], lo, hi,
                                   ratios.cols)], 1)
                merged == FFill(MergeRange(dense, fred.rows, fred.cols, 1, Len(dense)), fred.cols)
                mcols == ratios.cols \cup fred.cols
                labelled == ApplyLabel(merged, mcols)
                kept == DropUnlabelled(TargetFFill(labelled))
            IN  [raised |-> FALSE, dense |-> dense, labelled |-> labelled,
                 final |-> FillResidual(kept, mcols \cup {"TARGET_HIGH_RISK"}),
                 done |-> TRUE]

(***************************************************************************)
(* SpecFeat: build_features applied to a raw fundamentals table of two     *)
(* symbols with two reports each and a raw macro table with one row per    *)
(* date (the macro loader's outer merge on date yields no repeated date).  *)
(***************************************************************************)
\* the day of a late first report and of a late start of the macro table
\* (an early one is day 0)
MaxLag == 1

\* the days by which the longer macro tables reach past the label horizon
Slack == 3

\* one report: the five raw line items
Report(debt, assets, income, revenue, cash) ==
    [c \in RAW_COLS |->
       CASE c = "totalDebt_bal" -> debt
         [] c = "totalAssets_bal" -> assets
         [] c = "netIncome_inc" -> income
         [] c = "totalRevenue_inc" -> revenue
         [] OTHER -> cash]

FirstReports ==
    {Report(Num(1, 1), Num(2, 1), Num(1, 1), Num(2, 1), Num(1, 1)),
     Report(Num(1, 1), Num(0, 1), Txt, Num(2, 1), Num(0, 1))}

SecondReport == Report(Num(2, 1), Num(2, 1), Num(0 - 1, 1), Num(2, 1), Num(1, 1))

\* a raw fundamentals table as load_fundamentals concatenates it: symbol by
\* symbol in SYMBOLS order, each symbol's reports by date
FundTable(a, m, first, cols) ==
    [cols |-> cols,
     rows |-> [i \in 1..4 |->
        [symbol |-> IF i <= 2 THEN "MSFT" ELSE "AAPL",
         date |-> (IF i <= 2 THEN m ELSE a) + (IF i % 2 = 0 THEN Slack ELSE 0),
         v |-> [c \in cols |-> IF i % 2 = 0 THEN SecondReport[c] ELSE first[c]]]]]

FundTables ==
    {FundTable(a, m, first, cols) :
        a \in {0, MaxLag}, m \in {0, MaxLag}, first \in FirstReports,
        cols \in {RAW_COLS, RAW_COLS \ {"cashAndShortTermInvestments_bal"}}}

\* the spread on day d: below the threshold but for a spike, which either
\* exceeds the threshold for the one day spikeDay or touches it on spikeDay and
\* exceeds it on the day after
Spread(d, spikeDay, spikeVal) ==
    IF d = spikeDay THEN spikeVal
    ELSE IF d = spikeDay + 1 /\ spikeVal = HighRiskThreshold THEN HighRiskThreshold + 1
    ELSE HighRiskThreshold - 1

\* a raw macro table: a row per day from start to end, or (weekdays) only per
\* day of the first five of each seven and the last day
FredTable(start, end, weekdays, spikeDay, spikeVal) ==
    [cols |-> {"HIGH_YIELD_OAS"},
     rows |-> SelectSeq(
        [k \in 1..(end - start + 1) |->
           [date |-> start + k - 1,
            v |-> [c \in {"HIGH_YIELD_OAS"} |->
                     Num(Spread(start + k - 1, spikeDay, spikeVal), 1)]]],
        LAMBDA r : ~weekdays \/ r.date % 7 < 5 \/ r.date = end)]

\* the spike falls in the middle of the table, one day past the horizon, or
\* on the table's last day
FredTables ==
    UNION {{FredTable(start, end, weekdays, spikeDay, spikeVal) :
              start \in {0, MaxLag},
              weekdays \in BOOLEAN,
              spikeDay \in {Horizon \div 2, Horizon + 1, end},
              spikeVal \in {HighRiskThreshold, HighRiskThreshold + 1}} :
           end \in {Horizon - 1, Horizon + Slack}}

NotBuilt == [raised |-> FALSE, dense |-> <<>>, labelled |-> <<>>, final |-> <<>>,
             done |-> FALSE]

InitFeat ==
    /\ AtRest
    /\ inp \in [fund : FundTables, fred : FredTables]
    /\ out = NotBuilt

ApplyBuildFeatures ==
    /\ ~out.done
    /\ out' = build_features(inp.fund, inp.fred)
    /\ UNCHANGED <<fs, clock, drv, drvLog, last, inp>>

NextFeat == ApplyBuildFeatures

SpecFeat == InitFeat /\ [][NextFeat]_vars

(***************************************************************************)
(* SpecCwd: the stages and the dashboard started by hand from any working  *)
(* directory.  A location is <<directory, path>>: os.path.join of the two. *)
(* inp is the process that ran last, out the set of locations that hold a  *)
(* file.                                                                   *)
(***************************************************************************)
\* the repository root: two levels above the directory of a stage's __file__
ROOT == "repo"

\* the working directories a process is started from
Cwds == {ROOT, "repo/src", "elsewhere"}

\* a path built from os.path.abspath(__file__)
FromFile(path) == <<ROOT, path>>

\* a relative path, which open() resolves against the working directory
FromCwd(cwd, path) == <<cwd, path>>

DASHBOARD == "dashboards/app.py"

\* the scripts that can be started with no arguments
Stages == {Scripts[i] : i \in 1..Len(Scripts)} \cup {LOAD_FRED, DASHBOARD}

\* the paths a stage opens for reading, wherever it resolves them
ReadPaths(stage) ==
    CASE stage = Scripts[2] -> {RAW_FUNDAMENTALS, RAW_FRED}
      [] stage = Scripts[3] -> {OUTPUT_FILE}
      [] stage = Scripts[4] -> {DATA_PATH, LOG_REG_PKL, XGBOOST_PKL}
      [] stage = DASHBOARD -> {RAW_FUNDAMENTALS, SUMMARY_PATH, SHAP_PATH, LOG_REG_COEF,
                               RocPath("Logistic_Regression"), RocPath("XGBoost")}
      [] OTHER -> {}

\* the paths without which a stage writes nothing
RequiredPaths(stage) ==
    CASE stage = Scripts[2] -> {RAW_FUNDAMENTALS, RAW_FRED}
      [] stage = Scripts[3] -> {OUTPUT_FILE}
      [] stage = Scripts[4] -> {DATA_PATH}
      [] OTHER -> {}

\* where a stage started in cwd looks for, or puts, the file of a path:
\* load_fundamentals.py and train_models.py name their files by relative paths
Locate(stage, cwd, path) ==
    IF stage \in {Scripts[1], Scripts[3]} THEN FromCwd(cwd, path) ELSE FromFile(path)

\* the paths a stage writes when it finds what it requires; disk: the
\* locations that hold a file
WritePaths(stage, cwd, disk) ==
    CASE stage = Scripts[1] -> {RAW_FUNDAMENTALS}
      [] stage = LOAD_FRED -> {RAW_FRED}
      [] stage = Scripts[2] -> {OUTPUT_FILE}
      [] stage = Scripts[3] -> {LOG_REG_PKL, LOG_REG_COEF, XGBOOST_PKL, DATA_PATH}
      [] stage = Scripts[4] ->
           {SUMMARY_PATH}
             \cup (IF Locate(stage, cwd, LOG_REG_PKL) \in disk
                   THEN {RocPath("Logistic_Regression")} ELSE {})
             \cup (IF Locate(stage, cwd, XGBOOST_PKL) \in disk
                   THEN {RocPath("XGBoost"), SHAP_PATH} ELSE {})
      [] OTHER -> {}

NoRun == [stage |-> "", cwd |-> "", reads |-> {}, writes |-> {}, found |-> TRUE]

InitCwd ==
    /\ AtRest
    /\ inp = NoRun
    /\ out = {}

\* python <stage> in working directory cwd, every fetch and fit succeeding
RunIn(stage, cwd) ==
    LET reads == {Locate(stage, cwd, q) : q \in ReadPaths(stage)}
        found == \A q \in RequiredPaths(stage) : Locate(stage, cwd, q) \in out
        writes == IF found
                  THEN {Locate(stage, cwd, q) : q \in WritePaths(stage, cwd, out)}
                  ELSE {}
    IN  /\ inp' = [stage |-> stage, cwd |-> cwd, reads |-> reads, writes |-> writes,
                   found |-> found]
        /\ out' = out \cup writes
        /\ UNCHANGED <<fs, clock, drv, drvLog, last>>

NextCwd == \E stage \in Stages : \E cwd \in Cwds : RunIn(stage, cwd)

SpecCwd == InitCwd /\ [][NextCwd]_vars

\* C12: whatever working directory a stage is started from, it reads and
\* writes its artifacts at the same fixed locations (those under the
\* repository root), and it finds every file it requires as soon as the stage
\* producing that file has written it, from whatever working directory.
C12_FixedLocations ==
    /\ \A l \in inp.reads \cup inp.writes : l[1] = ROOT
    /\ (\A q \in RequiredPaths(inp.stage) : \E l \in out : l[2] = q) => inp.found

(***************************************************************************)
(* Claims about build_features, checked under SpecFeat.                    *)
(***************************************************************************)
Built == out.done /\ ~out.raised

Target(r) == r.v["TARGET_HIGH_RISK"]
SpreadOf(r) == r.v["HIGH_YIELD_OAS"]
One == Num(1, 1)
Zero == Num(0, 1)

\* a spread strictly above 5.0; a missing spread is not
Above5(c) == (c.k = "inf" /\ c.n > 0) \/ (c.k = "num" /\ c.n > 5 * c.d)

Flag(c) == IF Above5(c) THEN One ELSE Zero

\* the positions in rows of symbol sym's rows
RowsOfSymbol(rows, sym) == {i \in 1..Len(rows) : rows[i].symbol = sym}

\* the last date of symbol sym's densified series
LastDateOf(sym) ==
    CHOOSE d \in {out.dense[i].date : i \in RowsOfSymbol(out.dense, sym)} :
        \A j \in RowsOfSymbol(out.dense, sym) : out.dense[j].date <= d

\* the spread joined to symbol sym's row dated d, before the residual fill
JoinedSpread(sym, d) ==
    SpreadOf(out.labelled[CHOOSE i \in 1..Len(out.labelled) :
        out.labelled[i].symbol = sym /\ out.labelled[i].date = d])

\* the spread exceeds 5.0 on a date within the 90 days that follow row r's date
BreachWithin(r) ==
    \E j \in 1..Len(out.labelled) :
        /\ out.labelled[j].symbol = r.symbol
        /\ out.labelled[j].date > r.date
        /\ out.labelled[j].date <= r.date + Horizon
        /\ Above5(SpreadOf(out.labelled[j]))

FirstReportDate(sym) ==
    CHOOSE d \in {inp.fund.rows[i].date : i \in RowsOfSymbol(inp.fund.rows, sym)} :
        \A j \in RowsOfSymbol(inp.fund.rows, sym) : d <= inp.fund.rows[j].date

\* C6: neither the densified panel nor the feature+target table has a row
\* dated before its symbol's first reporting date.
C6_NoRowBeforeFirstReport ==
    Built => /\ \A i \in 1..Len(out.dense) :
                   out.dense[i].date >= FirstReportDate(out.dense[i].symbol)
             /\ \A i \in 1..Len(out.final) :
                   out.final[i].date >= FirstReportDate(out.final[i].symbol)

\* the dates of symbol sym's rows
DatesOf(rows, sym) == {rows[i].date : i \in RowsOfSymbol(rows, sym)}

\* the dates ds are a run of consecutive days
Consecutive(ds) ==
    \/ ds = {}
    \/ LET first == CHOOSE d \in ds : \A e \in ds : d <= e
           final == CHOOSE d \in ds : \A e \in ds : d >= e
       IN  Cardinality(ds) = final - first + 1

\* C13: for every symbol the dates of its rows in the densified panel, and of
\* its rows in the feature+target table, are a run of consecutive calendar
\* days: no date between the first and the last is missing.
C13_ContiguousDates ==
    Built => \A g \in 1..Len(SymbolOrder) :
                /\ Consecutive(DatesOf(out.dense, SymbolOrder[g]))
                /\ Consecutive(DatesOf(out.final, SymbolOrder[g]))

\* a table built from reports some days apart and a macro table that skips
\* days, with rows of both symbols in the densified panel and in the table
C13_Witness ==
    /\ Built
    /\ Len(inp.fred.rows) < inp.fred.rows[Len(inp.fred.rows)].date
                              - inp.fred.rows[1].date + 1
    /\ \A g \in 1..Len(SymbolOrder) :
          /\ Cardinality(DatesOf(inp.fund.rows, SymbolOrder[g])) = 2
          /\ Cardinality(DatesOf(out.dense, SymbolOrder[g])) > Horizon
          /\ Cardinality(DatesOf(out.final, SymbolOrder[g])) > Horizon

(***************************************************************************)
(* SpecFeatAny: build_features applied to raw tables as a file can hold    *)
(* them, a date repeated or not: a symbol's report repeated under one      *)
(* date, a macro row repeated under one date.                              *)
(***************************************************************************)
\* the fundamentals table t with MSFT's second report dated as its first
RepeatedReport(t) == [t EXCEPT !.rows[2].date = t.rows[1].date]

\* the macro table t with its k-th row twice
RepeatedDate(t, k) ==
    [t EXCEPT !.rows = SubSeq(t.rows, 1, k) \o <<t.rows[k]>>
                         \o SubSeq(t.rows, k + 1, Len(t.rows))]

FundTablesAny ==
    LET plain == {t \in FundTables : t.cols = RAW_COLS}
    IN  plain \cup {RepeatedReport(t) : t \in plain}

FredTablesAny ==
    LET plain == {FredTable(start, end, FALSE, spikeDay, HighRiskThreshold + 1) :
                    start \in {0, MaxLag}, end \in {Horizon - 1, Horizon + Slack},
                    spikeDay \in {Horizon \div 2, Horizon + 1}}
    IN  plain \cup {RepeatedDate(t, 1) : t \in plain}

InitFeatAny ==
    /\ AtRest
    /\ inp \in [fund : FundTablesAny, fred : FredTablesAny]
    /\ out = NotBuilt

NextFeatAny == ApplyBuildFeatures

SpecFeatAny == InitFeatAny /\ [][NextFeatAny]_vars

\* no two rows carry the same (symbol, date)
UniqueKeys(rows) ==
    Cardinality({<<rows[i].symbol, rows[i].date>> : i \in 1..Len(rows)}) = Len(rows)

\* no two rows carry the same date
UniqueDates(rows) == Cardinality({rows[i].date : i \in 1..Len(rows)}) = Len(rows)

Breaches == {i \in 1..Len(inp.fred.rows) : Above5(SpreadOf(inp.fred.rows[i]))}

\* the macro table has a row for every day from its first to its last, and
\* the spread exceeds 5.0 on exactly one of them
DailyOneBreach ==
    /\ Len(inp.fred.rows)
         = inp.fred.rows[Len(inp.fred.rows)].date - inp.fred.rows[1].date + 1
    /\ Cardinality(Breaches) = 1

\* the date of the breach
BreachDate == inp.fred.rows[CHOOSE i \in Breaches : TRUE].date

\* the macro series starts no later than the first report
Covered == inp.fred.rows[1].date <= MinDate(inp.fund.rows)

\* the densified rows that have a row of their symbol 90 days ahead
Resolvable ==
    {i \in 1..Len(out.dense) :
        out.dense[i].date + Horizon <= LastDateOf(out.dense[i].symbol)}

\* the number of maximal runs of 1-labelled rows, in row order
Blocks(rows) ==
    Cardinality({i \in 1..Len(rows) :
        Target(rows[i]) = One /\ (i = 1 \/ Target(rows[i - 1]) # One)})

ShapCap == 500

\* the rows of the short test splits, and by how many rows the long ones
\* pass the cap
MaxTest == 3

\* y_probs >= 0.5
Half == Num(1, 2)

\* (y_probs > 0.5).astype(int): the threshold itself predicted negative
PredictStrict(q) == IF LessEq(Half, q) /\ q # Half THEN 1 ELSE 0

\* (y_probs >= 0.5).astype(int)
Predict(q) == IF LessEq(Half, q) THEN 1 ELSE 0

\* confusion_matrix(y_test, y_preds): its labels are the sorted values that
\* occur in either argument, entry [i][j] counts the rows of true label i
\* predicted j
ConfusionMatrix(test) ==
    LET n == Len(test)
        occur == {test[i].y : i \in 1..n} \cup {Predict(test[i].p) : i \in 1..n}
        labels == SelectSeq(<<0, 1>>, LAMBDA l : l \in occur)
    IN  [i \in 1..Len(labels) |-> [j \in 1..Len(labels) |->
           Cardinality({r \in 1..n : test[r].y = labels[i]
                                      /\ Predict(test[r].p) = labels[j]})]]

\* .ravel(): the matrix row by row
Ravel(m) ==
    [k \in 1..(Len(m) * Len(m)) |-> m[((k - 1) \div Len(m)) + 1][((k - 1) % Len(m)) + 1]]

\* the whole test split explained
SampleSizeAll(n) == n

\* sample_size = min(500, len(X_test))
SampleSize(n) == IF ShapCap < n THEN ShapCap ELSE n

\* X_test.head(sample_size): SHAP row k explains test row k
HeadRows(test, k) == [i \in 1..k |-> i]

EvalRaised == [done |-> TRUE, raised |-> TRUE, entry |-> <<>>, shap |-> <<>>]

\* the loop body for model `name`: the summary entry and the SHAP table, or
\* ValueError when tn, fp, fn, tp = ... unpacks a matrix that is not 2 x 2
EvaluateModel(name, test) ==
    LET flat == Ravel(ConfusionMatrix(test))
    IN  IF Len(flat) # 4 THEN EvalRaised
        ELSE [done |-> TRUE, raised |-> FALSE,
              entry |-> [True_Positives |-> flat[4], True_Negatives |-> flat[1],
                         False_Positives |-> flat[2], False_Negatives |-> flat[3]],
              shap |-> IF name = "XGBoost"
                       THEN HeadRows(test, SampleSize(Len(test))) ELSE <<>>]

\* the probabilities a model answers
Probs == {Num(2, 5), Half, Num(3, 5)}

\* a test split of n rows whose labels cycle through ys and whose
\* probabilities cycle through ps
TestSplit(n, ys, ps) ==
    [i \in 1..n |-> [y |-> ys[((i - 1) % Len(ys)) + 1], p |-> ps[((i - 1) % Len(ps)) + 1]]]

\* short splits, and splits just below, at and above the SHAP cap
TestSizes == (1..MaxTest) \cup {ShapCap - 1, ShapCap, ShapCap + MaxTest}

TestSplits ==
    {TestSplit(n, ys, ps) :
        n \in TestSizes, ys \in [1..2 -> {0, 1}], ps \in [1..3 -> Probs]}

NotEvaluated == [done |-> FALSE, raised |-> FALSE, entry |-> <<>>, shap |-> <<>>]

InitEval ==
    /\ AtRest
    /\ inp \in [name : {ModelNames[i] : i \in 1..Len(ModelNames)}, test : TestSplits]
    /\ out = NotEvaluated

ApplyEvaluateModel ==
    /\ ~out.done
    /\ out' = EvaluateModel(inp.name, inp.test)
    /\ UNCHANGED <<fs, clock, drv, drvLog, last, inp>>

NextEval == ApplyEvaluateModel

SpecEval == InitEval /\ [][NextEval]_vars

\* the test rows of true label y that are (pos) or are not predicted positive:
\* a row is predicted positive exactly when its probability is at least 1/2
RowsWith(y, pos) ==
    {i \in 1..Len(inp.test) :
        /\ inp.test[i].y = y
        /\ pos <=> (inp.test[i].p.k = "num" /\ 2 * inp.test[i].p.n >= inp.test[i].p.d)}

\* C16: the four counts of a summary entry are the confusion counts at the
\* 0.5 threshold, a row being predicted positive exactly when its probability
\* is >= 0.5, and they add up to the number of rows of the test split.
C16_ConfusionCounts ==
    (out.done /\ ~out.raised)
      => /\ out.entry.True_Positives = Cardinality(RowsWith(1, TRUE))
         /\ out.entry.False_Positives = Cardinality(RowsWith(0, TRUE))
         /\ out.entry.False_Negatives = Cardinality(RowsWith(1, FALSE))
         /\ out.entry.True_Negatives = Cardinality(RowsWith(0, FALSE))
         /\ out.entry.True_Positives + out.entry.False_Positives
              + out.entry.False_Negatives + out.entry.True_Negatives = Len(inp.test)

\* an entry with all four counts positive, a negative row of probability
\* exactly 0.5 among the false positives
C16_Witness ==
    /\ out.done
    /\ ~out.raised
    /\ \A y \in {0, 1} : \A pos \in BOOLEAN : RowsWith(y, pos) # {}
    /\ \E i \in RowsWith(0, TRUE) : inp.test[i].p = Half
    /\ out.entry.False_Positives = Cardinality(RowsWith(0, TRUE))

\* the SHAP table of a tree model's evaluation has a row per explained
\* instance, the first min(500, n) rows of the n-row test split
ShapIsPrefix ==
    /\ Len(out.shap) = (IF Len(inp.test) > 500 THEN 500 ELSE Len(inp.test))
    /\ \A k \in 1..Len(out.shap) : out.shap[k] = k

ShapWritten == out.done /\ ~out.raised /\ inp.name = "XGBoost"

\* C17 as stated: the SHAP table has one row per explained instance, the
\* first min(500, n) rows of the test split, and the explained rows are never
\* the whole test split.
C17_NeverFullSet ==
    ShapWritten => ShapIsPrefix /\ Len(out.shap) < Len(inp.test)

\* C17 as amended: the SHAP table has one row per explained instance, the
\* first min(500, n) rows of the test split; the explained rows are the whole
\* test split exactly when it has at most 500 rows.
C17_CappedPrefix ==
    ShapWritten
      => /\ ShapIsPrefix
         /\ (Len(out.shap) = Len(inp.test)) <=> (Len(inp.test) <= 500)

\* a test split of more than 500 rows explained on its first 500
C17_Witness ==
    /\ ShapWritten
    /\ Len(inp.test) > 500
    /\ Len(out.shap) = 500
    /\ out.shap[500] = 500

(***************************************************************************)
(* SpecDash: the dashboard pages over the persisted artifacts.  A table or *)
(* map file is "absent", "ok" (as the pipeline writes it), "unreadable"    *)
(* (it exists, reading it raises) or "lacking" (readable, without the      *)
(* columns or keys its reader names).  The summary is [st, keys, auc]:     *)
(* when st = "ok", keys are the models it has an entry for and auc tells   *)
(* whether the entries have the AUC field.  inp holds the artifacts, out   *)
(* the last page build or callback: what it showed, or that it raised.     *)
(***************************************************************************)
FileStates == {"absent", "ok", "unreadable", "lacking"}

MODEL_NAMES == {"Logistic_Regression", "XGBoost"}

SummaryStates ==
    {[st |-> "absent", keys |-> {}, auc |-> TRUE],
     [st |-> "unreadable", keys |-> {}, auc |-> TRUE]}
      \cup [st : {"ok"}, keys : SUBSET MODEL_NAMES, auc : BOOLEAN]

Artifacts ==
    [fundamentals : FileStates, summary : SummaryStates, roc : [MODEL_NAMES -> FileStates],
     shap : FileStates, coef : FileStates]

\* what load_metrics returns for None
None == [st |-> "none", keys |-> {}, auc |-> TRUE]

\* load_metrics: the parsed summary, None on any exception
load_metrics(summary) == IF summary.st = "ok" THEN summary ELSE None

\* `not metrics`: None or an empty dict
Falsy(metrics) == metrics.st = "none" \/ metrics.keys = {}

\* summary_table: metrics.get(m, {}).get(metric, 0) raises for no dict
summary_table(metrics) == IF Falsy(metrics) THEN "alert" ELSE "table"

\* the ROC half of update_charts without the os.path.exists test
RocFigureUnguarded(model, art, metrics) ==
    IF art.roc[model] \in {"absent", "unreadable"} THEN "raise"
    ELSE IF ~Falsy(metrics) /\ model \in metrics.keys /\ ~metrics.auc THEN "raise"
    ELSE IF art.roc[model] = "lacking" THEN "raise"
    ELSE "chart"

\* the ROC half of update_charts: pd.read_csv(roc_path) outside any try,
\* metrics[model]["AUC"], px.line(roc_df, x="fpr", y="tpr")
RocFigure(model, art, metrics) ==
    IF art.roc[model] = "absent" THEN "placeholder"            \* os.path.exists
    ELSE IF art.roc[model] = "unreadable" THEN "raise"         \* pd.read_csv
    ELSE IF ~Falsy(metrics) /\ model \in metrics.keys /\ ~metrics.auc
    THEN "raise"                                               \* KeyError: 'AUC'
    ELSE IF art.roc[model] = "lacking" THEN "raise"            \* px.line: ValueError
    ELSE "chart"

\* the confusion-matrix half of update_charts: m.get(..., 0) throughout
MatrixFigure(model, metrics) ==
    IF ~Falsy(metrics) /\ model \in metrics.keys THEN "chart" ELSE "placeholder"

Shown(op, parts) ==
    [op |-> op, raised |-> \E i \in 1..Len(parts) : parts[i] = "raise", parts |-> parts]

update_charts(model, art) ==
    LET metrics == load_metrics(art.summary)
    IN  Shown("update_charts", <<RocFigure(model, art, metrics), MatrixFigure(model, metrics)>>)

\* p0_overview: latest_df is the fallback frame on any exception; exposure_chart
\* shows "(No Data)" for an empty frame or one without the column
exposure_chart(fundamentals) == IF fundamentals = "ok" THEN "chart" ELSE "placeholder"

\* load_coefficients then create_coefficient_chart: None or {} gives the
\* placeholder
create_coefficient_chart(coef) ==
    IF coef \in {"absent", "unreadable"} THEN "placeholder" ELSE "chart"

\* load_shap_data then create_shap_summary_chart: None gives the placeholder;
\* drop(columns=["expected_value"], errors="ignore") tolerates a lacking column
create_shap_summary_chart(shap) ==
    IF shap \in {"absent", "unreadable"} THEN "placeholder" ELSE "chart"

NothingShown == [op |-> "", raised |-> FALSE, parts |-> <<>>]

InitDash ==
    /\ AtRest
    /\ inp \in Artifacts
    /\ out = NothingShown

\* the layout of p0_overview is built
OverviewLayout ==
    /\ out' = Shown("p0_overview", <<exposure_chart(inp.fundamentals)>>)
    /\ UNCHANGED <<fs, clock, drv, drvLog, last, inp>>

\* the layout of p1_model_metrics is built
MetricsLayout ==
    /\ out' = Shown("p1_model_metrics", <<summary_table(load_metrics(inp.summary))>>)
    /\ UNCHANGED <<fs, clock, drv, drvLog, last, inp>>

\* the layout of p2_interpretability is built
InterpretabilityLayout ==
    /\ out' = Shown("p2_interpretability", <<create_coefficient_chart(inp.coef)>>)
    /\ UNCHANGED <<fs, clock, drv, drvLog, last, inp>>

\* the callback of the model dropdown
UpdateCharts ==
    /\ \E model \in MODEL_NAMES :
          out' = [update_charts(model, inp) EXCEPT !.op = model]
    /\ UNCHANGED <<fs, clock, drv, drvLog, last, inp>>

\* the callback of the SHAP chart
UpdateShapChart ==
    /\ out' = Shown("update_shap_chart", <<create_shap_summary_chart(inp.shap)>>)
    /\ UNCHANGED <<fs, clock, drv, drvLog, last, inp>>

NextDash ==
    \/ OverviewLayout
    \/ MetricsLayout
    \/ InterpretabilityLayout
    \/ UpdateCharts
    \/ UpdateShapChart

SpecDash == InitDash /\ [][NextDash]_vars

\* every artifact is absent or as the pipeline writes it
AbsentOrIntact ==
    /\ inp.fundamentals \in {"absent", "ok"}
    /\ inp.shap \in {"absent", "ok"}
    /\ inp.coef \in {"absent", "ok"}
    /\ \A m \in MODEL_NAMES : inp.roc[m] \in {"absent", "ok"}
    /\ inp.summary.st \in {"absent", "ok"}
    /\ inp.summary.auc

\* C18: whichever of the artifacts are absent, the others being as the
\* pipeline writes them, no page layout and no callback raises, and the part
\* of an absent artifact is a placeholder.
C18_AbsentArtifactsTolerated ==
    AbsentOrIntact
      => /\ ~out.raised
         /\ (out.op = "p0_overview" /\ inp.fundamentals = "absent")
              => out.parts[1] = "placeholder"
         /\ (out.op = "p1_model_metrics" /\ inp.summary.st = "absent")
              => out.parts[1] = "alert"
         /\ (out.op = "p2_interpretability" /\ inp.coef = "absent")
              => out.parts[1] = "placeholder"
         /\ (out.op = "update_shap_chart" /\ inp.shap = "absent")
              => out.parts[1] = "placeholder"
         /\ \A m \in MODEL_NAMES :
              /\ (out.op = m /\ inp.roc[m] = "absent") => out.parts[1] = "placeholder"
              /\ (out.op = m /\ inp.summary.st = "absent") => out.parts[2] = "placeholder"

\* update_charts drew a ROC curve from a ROC table, the summary being absent
C18_Witness ==
    /\ AbsentOrIntact
    /\ out.op = "XGBoost"
    /\ inp.summary.st = "absent"
    /\ inp.roc["XGBoost"] = "ok"
    /\ inp.roc["Logistic_Regression"] = "absent"
    /\ out.parts = <<"chart", "placeholder">>

\* C19: whatever state the artifact files are in (absent, unreadable, lacking
\* expected columns or keys), no page layout and no callback raises.
C19_NoDataFailureRaises == ~out.raised

(***************************************************************************)
(* The macro columns of the feature+target table, checked under SpecFeat.  *)
(***************************************************************************)
\* the positions of the macro rows dated d or earlier
MacroUpTo(d) == {k \in 1..Len(inp.fred.rows) : inp.fred.rows[k].date <= d}

\* the spread of the macro panel at the latest macro date <= d
MacroAsOf(d) ==
    SpreadOf(inp.fred.rows[CHOOSE k \in MacroUpTo(d) :
        \A l \in MacroUpTo(d) : inp.fred.rows[l].date <= inp.fred.rows[k].date])

\* C21: in the feature+target table any two rows with the same date carry the
\* same value in the macro column, and the macro value of a row dated D is that
\* of the macro panel at the latest macro date <= D (no value is carried from
\* one symbol's rows into another's).
C21_MacroPerDate ==
    Built => \A i \in 1..Len(out.final) :
                /\ MacroUpTo(out.final[i].date) # {}
                     => SpreadOf(out.final[i]) = MacroAsOf(out.final[i].date)
                /\ \A j \in RowsOfSymbol(out.final, "MSFT") :
                     out.final[j].date = out.final[i].date
                       => SpreadOf(out.final[j]) = SpreadOf(out.final[i])

=============================================================================
